---- MODULE Spec2Model ----
(***************************************************************************)
(* FocalLoss (monai/losses/focal_loss.py): the constructor and forward.    *)
(*                                                                         *)
(* A tensor is a record [shape, data]: data is the row-major flattening,   *)
(* every element an exact rational <<numerator, denominator>>.  Sums,      *)
(* products and means are exact; exp and log are fixed-point series at     *)
(* resolution 1/Scale, as a floating-point library approximates them.      *)
(***************************************************************************)
EXTENDS Integers, Sequences, FiniteSets, TLC

VARIABLES self, ctorRaised, calls

vars == <<self, ctorRaised, calls>>

\* Bounds of the model.
MaxB == 2
MaxC == 2
MaxV == 2
Scale == 1000

(***************************************************************************)
(* Exact rationals.                                                        *)
(***************************************************************************)
Abs(n) == IF n < 0 THEN -n ELSE n

RECURSIVE GCD(_, _)
GCD(a, b) == IF b = 0 THEN a ELSE GCD(b, a % b)

Rat(n, d) == LET g == GCD(Abs(n), d) IN <<n \div g, d \div g>>

R(n) == <<n, 1>>

RNeg(a) == <<-a[1], a[2]>>

RAdd(a, b) ==
    LET g == GCD(a[2], b[2])
        l == (a[2] \div g) * b[2]
    IN  Rat(a[1] * (l \div a[2]) + b[1] * (l \div b[2]), l)

RSub(a, b) == RAdd(a, RNeg(b))

RMul(a, b) ==
    LET x == Rat(a[1], b[2])
        y == Rat(b[1], a[2])
    IN  <<x[1] * y[1], x[2] * y[2]>>

RDivInt(a, k) == LET x == Rat(a[1], k) IN <<x[1], x[2] * a[2]>>

RLess(a, b) == a[1] * b[2] < b[1] * a[2]

RMax(a, b) == IF RLess(a, b) THEN b ELSE a

RMin(a, b) == IF RLess(a, b) THEN a ELSE b

RAbs(a) == <<Abs(a[1]), a[2]>>

(***************************************************************************)
(* exp and log of the tensor engine, in fixed point (units of 1/Scale).    *)
(***************************************************************************)
RECURSIVE ExpSeries(_, _, _, _)
ExpSeries(a, k, term, acc) ==
    IF term = 0 THEN acc
    ELSE ExpSeries(a, k + 1, (term * a) \div (k * Scale), acc + term)

\* e^(a/Scale) for a >= 0
ExpFix(a) == ExpSeries(a, 1, Scale, 0)

RECURSIVE LogSeries(_, _, _, _)
LogSeries(z, k, pow, acc) ==
    IF pow = 0 THEN 2 * acc
    ELSE LogSeries(z, k + 2, (((pow * z) \div Scale) * z) \div Scale, acc + (pow \div k))

\* ln(y/Scale) for y >= Scale
LogFix(y) ==
    LET z == ((y - Scale) * Scale) \div (y + Scale)
    IN  LogSeries(z, 1, z, 0)

Fix(a) == (Abs(a[1]) * Scale) \div a[2]

\* torch.exp on one element
Exp(a) ==
    IF a[1] <= 0 THEN Rat((Scale * Scale) \div ExpFix(Fix(a)), Scale)
    ELSE Rat(ExpFix(Fix(a)), Scale)

\* torch.log on one element (a > 0)
Log(a) ==
    IF Fix(a) >= Scale THEN Rat(LogFix(Fix(a)), Scale)
    ELSE Rat(-LogFix((Scale * Scale) \div Fix(a)), Scale)

\* F.logsigmoid on one element: min(x, 0) - log(1 + exp(-|x|))
LogSigmoid(x) == RSub(RMin(x, R(0)), Log(RAdd(R(1), Exp(RNeg(RAbs(x))))))

(***************************************************************************)
(* Tensors.                                                                *)
(***************************************************************************)
RECURSIVE Prod(_)
Prod(s) == IF s = <<>> THEN 1 ELSE s[1] * Prod(Tail(s))

Numel(shape) == Prod(shape)

NoTensor == [shape |-> <<0>>, data |-> <<>>]

Scalar(x) == [shape |-> <<>>, data |-> <<x>>]

\* elements per (batch, channel) position
Inner(shape) == Prod(SubSeq(shape, 3, Len(shape)))

\* elementwise unary and binary operations build a new tensor
Map1(Op(_), a) == [shape |-> a.shape, data |-> [k \in 1..Len(a.data) |-> Op(a.data[k])]]

Map2(Op(_, _), a, b) ==
    [shape |-> a.shape, data |-> [k \in 1..Len(a.data) |-> Op(a.data[k], b.data[k])]]

\* x[:, 1:]
DropChannel0(x) ==
    LET b == x.shape[1]
        c == x.shape[2]
        r == Inner(x.shape)
    IN  [shape |-> [x.shape EXCEPT ![2] = c - 1],
         data  |-> [k \in 1..(b * (c - 1) * r) |->
                      LET bi == (k - 1) \div ((c - 1) * r)
                          rest == (k - 1) % ((c - 1) * r)
                          ci == (rest \div r) + 1
                          ri == rest % r
                      IN  x.data[(bi * c + ci) * r + ri + 1]]]

\* x.reshape(b, n, -1)
Reshape3(x, b, n) == [shape |-> <<b, n, Numel(x.shape) \div (b * n)>>, data |-> x.data]

RECURSIVE SumSeq(_)
SumSeq(s) == IF s = <<>> THEN R(0) ELSE RAdd(s[1], SumSeq(Tail(s)))

\* x.sum()
TSum(x) == Scalar(SumSeq(x.data))

\* mutant: the mean is taken over the batch only
TMeanBatch(x) == Scalar(RDivInt(SumSeq(x.data), x.shape[1]))

\* x.mean()
TMean(x) == Scalar(RDivInt(SumSeq(x.data), Len(x.data)))

\* mutant: the averaged axis is kept
MeanLastDimKeepdim(x) ==
    LET b == x.shape[1]
        n == x.shape[2]
        v == x.shape[3]
    IN  [shape |-> <<b, n, 1>>,
         data  |-> [k \in 1..(b * n) |->
                      RDivInt(SumSeq(SubSeq(x.data, (k - 1) * v + 1, k * v)), v)]]

\* torch.mean(x, dim=-1) of a [B, N, V] tensor
MeanLastDim(x) ==
    LET b == x.shape[1]
        n == x.shape[2]
        v == x.shape[3]
    IN  [shape |-> <<b, n>>,
         data  |-> [k \in 1..(b * n) |->
                      RDivInt(SumSeq(SubSeq(x.data, (k - 1) * v + 1, k * v)), v)]]

\* class_weight[None, :, None].expand((B, -1, V))
ExpandWeight(w, b, v) ==
    [shape |-> <<b, Len(w), v>>,
     data  |-> [k \in 1..(b * Len(w) * v) |-> w[(((k - 1) \div v) % Len(w)) + 1]]]

\* one_hot takes class indices: a tensor of one channel
OneHotAccepts(labels) == labels.shape[2] = 1

\* monai.networks.one_hot(labels, num_classes)
one_hot(labels, num_classes) ==
    LET b == labels.shape[1]
        r == Inner(labels.shape)
    IN  [shape |-> [labels.shape EXCEPT ![2] = num_classes],
         data  |-> [k \in 1..(b * num_classes * r) |->
                      LET bi == (k - 1) \div (num_classes * r)
                          rest == (k - 1) % (num_classes * r)
                          ci == rest \div r
                          ri == rest % r
                      IN  IF labels.data[bi * r + ri + 1] = R(ci) THEN R(1) ELSE R(0)]]

(***************************************************************************)
(* The instance and its calls.                                             *)
(***************************************************************************)
Threads == {1, 2}

\* the values of LossReduction that forward names
LossReduction == {"mean", "sum", "none"}

NoWeight == [kind |-> "none", vals |-> <<>>]

ScalarWeight(w) == [kind |-> "scalar", vals |-> <<w>>]

SequenceWeight(ws) == [kind |-> "sequence", vals |-> ws]

NoInstance ==
    [constructed |-> FALSE, include_background |-> TRUE, to_onehot_y |-> FALSE,
     gamma |-> 0, weight |-> NoWeight, reduction |-> "mean"]

NoOutcome == [kind |-> "none", msg |-> "", shapes |-> <<>>, value |-> NoTensor]

\* argInput, argTarget: the caller's tensor objects; input, target, i, t, ce,
\* loss: the names forward binds
IdleFrame ==
    [pc |-> "idle", argInput |-> NoTensor, argTarget |-> NoTensor, n_pred_ch |-> 0,
     input |-> NoTensor, target |-> NoTensor, i |-> NoTensor, t |-> NoTensor,
     ce |-> NoTensor, loss |-> NoTensor, warnings |-> <<>>, out |-> NoOutcome]

Enter(inp, tgt) ==
    [IdleFrame EXCEPT !.pc = "onehot", !.argInput = inp, !.argTarget = tgt,
                      !.input = inp, !.target = tgt]

Raise(f, kind, msg, shapes) ==
    [f EXCEPT !.pc = "done",
              !.out = [kind |-> kind, msg |-> msg, shapes |-> shapes, value |-> NoTensor]]

ReturnValue(f, value) ==
    [f EXCEPT !.pc = "done",
              !.out = [kind |-> "value", msg |-> "", shapes |-> <<>>, value |-> value]]

Warn(f, msg) == [f EXCEPT !.warnings = Append(@, msg)]

\* mutant: the target is expanded whatever the channel count
OneHotBlockAlways(s, f) ==
    LET g == [f EXCEPT !.pc = "background", !.n_pred_ch = f.input.shape[2]]
    IN  IF s.to_onehot_y
        THEN IF ~OneHotAccepts(g.target)
             THEN Raise(g, "AssertionError", "one_hot", <<>>)
             ELSE [g EXCEPT !.target = one_hot(g.target, g.n_pred_ch)]
        ELSE g

\* lines 93-99
OneHotBlock(s, f) ==
    LET g == [f EXCEPT !.pc = "background", !.n_pred_ch = f.input.shape[2]]
    IN  IF s.to_onehot_y
        THEN IF g.n_pred_ch = 1
             THEN Warn(g, "single channel prediction, to_onehot_y=True ignored.")
             ELSE IF ~OneHotAccepts(g.target)
                  THEN Raise(g, "AssertionError", "one_hot", <<>>)
                  ELSE [g EXCEPT !.target = one_hot(g.target, g.n_pred_ch)]
        ELSE g

\* lines 101-107
BackgroundBlock(s, f) ==
    LET g == [f EXCEPT !.pc = "shape"]
    IN  IF ~s.include_background
        THEN IF g.n_pred_ch = 1
             THEN Warn(g, "single channel prediction, include_background=False ignored.")
             ELSE [g EXCEPT !.target = DropChannel0(g.target),
                            !.input = DropChannel0(g.input)]
        ELSE g

\* mutant: the shapes are compared as passed, before the preprocessing
ShapeBlockAsPassed(s, f) ==
    IF f.argTarget.shape # f.argInput.shape
    THEN Raise(f, "ValueError", "shape", <<f.argTarget.shape, f.argInput.shape>>)
    ELSE LET b == f.target.shape[1]
             n == f.target.shape[2]
         IN  [f EXCEPT !.pc = "ce",
                       !.i = Reshape3(f.input, b, n),
                       !.t = Reshape3(f.target, b, n)]

\* lines 109-118
ShapeBlock(s, f) ==
    IF f.target.shape # f.input.shape
    THEN Raise(f, "ValueError", "shape", <<f.target.shape, f.input.shape>>)
    ELSE LET b == f.target.shape[1]
             n == f.target.shape[2]
         IN  [f EXCEPT !.pc = "ce",
                       !.i = Reshape3(f.input, b, n),
                       !.t = Reshape3(f.target, b, n)]

\* line 122-123 on one element
CrossEntropy(i, t) ==
    LET max_val == RMax(RNeg(i), R(0))
    IN  RAdd(RAdd(RSub(i, RMul(i, t)), max_val),
             Log(RAdd(Exp(RNeg(max_val)), Exp(RSub(RNeg(i), max_val)))))

\* lines 120-123
CEBlock(s, f) == [f EXCEPT !.pc = "weight", !.ce = Map2(CrossEntropy, f.i, f.t)]

\* mutant: the largest weight is tested
RECURSIVE MaxSeq(_)
MaxSeq(ws) ==
    IF Len(ws) = 1 THEN ws[1]
    ELSE LET m == MaxSeq(Tail(ws)) IN IF ws[1] > m THEN ws[1] ELSE m

\* class_weight.min(), line 136
RECURSIVE MinSeq(_)
MinSeq(ws) ==
    IF Len(ws) = 1 THEN ws[1]
    ELSE LET m == MinSeq(Tail(ws)) IN IF ws[1] < m THEN ws[1] ELSE m

\* lines 127-130
ClassWeight(s, f) ==
    IF s.weight.kind = "scalar"
    THEN [k \in 1..f.i.shape[2] |-> s.weight.vals[1]]
    ELSE s.weight.vals

\* mutant: the length is compared with the channels of the prediction as passed
LengthMismatchPredCh(class_weight, f) == Len(class_weight) # f.n_pred_ch

\* line 131
LengthMismatch(class_weight, f) == Len(class_weight) # f.i.shape[2]

\* lines 125-145
WeightBlock(s, f) ==
    IF s.weight.kind = "none"
    THEN [f EXCEPT !.pc = "focal"]
    ELSE LET class_weight == ClassWeight(s, f)
         IN  IF s.weight.kind = "sequence" /\ LengthMismatch(class_weight, f)
             THEN Raise(f, "ValueError", "weight_length", <<>>)
             ELSE IF MinSeq(class_weight) < 0
                  THEN Raise(f, "ValueError", "weight_range", <<>>)
                  ELSE LET at == ExpandWeight([k \in 1..Len(class_weight) |-> R(class_weight[k])],
                                              f.t.shape[1], f.t.shape[3])
                       IN  [f EXCEPT !.pc = "focal", !.ce = Map2(RMul, f.ce, at)]

\* line 149 on one element
LogPt(i, t) == LogSigmoid(RMul(RNeg(i), RSub(RMul(t, R(2)), R(1))))

\* mutant: 2t - 1 is computed in place, through the view t of the caller's target
FocalBlockInPlace(s, f) ==
    LET p == Map2(LogPt, f.i, f.t)
        Modulate(pk, cek) == RMul(Exp(RMul(pk, R(s.gamma))), cek)
        Sign(tk) == RSub(RMul(tk, R(2)), R(1))
    IN  [f EXCEPT !.pc = "reduce", !.loss = MeanLastDim(Map2(Modulate, p, f.ce)),
                  !.argTarget = IF f.target = f.argTarget THEN Map1(Sign, @) ELSE @]

\* mutant: the cross entropy is taken afresh, without its weights
FocalBlockUnweighted(s, f) ==
    LET p == Map2(LogPt, f.i, f.t)
        Modulate(pk, cek) == RMul(Exp(RMul(pk, R(s.gamma))), cek)
    IN  [f EXCEPT !.pc = "reduce",
                  !.loss = MeanLastDim(Map2(Modulate, p, Map2(CrossEntropy, f.i, f.t)))]

\* lines 147-150
FocalBlock(s, f) ==
    LET p == Map2(LogPt, f.i, f.t)
        Modulate(pk, cek) == RMul(Exp(RMul(pk, R(s.gamma))), cek)
    IN  [f EXCEPT !.pc = "reduce", !.loss = MeanLastDim(Map2(Modulate, p, f.ce))]

\* mutant: an unknown reduction returns the loss unreduced
ReduceBlockLenient(s, f) ==
    IF s.reduction = "sum" THEN ReturnValue(f, TSum(f.loss))
    ELSE IF s.reduction = "mean" THEN ReturnValue(f, TMean(f.loss))
    ELSE ReturnValue(f, f.loss)

\* lines 152-158
ReduceBlock(s, f) ==
    IF s.reduction = "sum" THEN ReturnValue(f, TSum(f.loss))
    ELSE IF s.reduction = "none" THEN ReturnValue(f, f.loss)
    ELSE IF s.reduction = "mean" THEN ReturnValue(f, TMean(f.loss))
    ELSE Raise(f, "ValueError", "reduction", <<>>)

\* one block of forward, chosen by the position in it
Block(s, f) ==
    CASE f.pc = "onehot" -> OneHotBlock(s, f)
      [] f.pc = "background" -> BackgroundBlock(s, f)
      [] f.pc = "shape" -> ShapeBlock(s, f)
      [] f.pc = "ce" -> CEBlock(s, f)
      [] f.pc = "weight" -> WeightBlock(s, f)
      [] f.pc = "focal" -> FocalBlock(s, f)
      [] f.pc = "reduce" -> ReduceBlock(s, f)
      [] OTHER -> f

\* forward from a position to its return or raise
RECURSIVE Run(_, _)
Run(s, f) == IF f.pc \in {"idle", "done"} THEN f ELSE Run(s, Block(s, f))

(***************************************************************************)
(* Arguments.                                                              *)
(***************************************************************************)
Spatials == {<<>>} \cup {<<v>> : v \in 1..MaxV} \cup {<<2, v>> : v \in 1..MaxV}

\* a spatial shape of the target: the input's, one more axis, another extent
TargetSpatials(sp) ==
    {sp, Append(sp, 1)}
      \cup (IF sp = <<>> THEN {} ELSE {[sp EXCEPT ![Len(sp)] = (@ % MaxV) + 1]})

\* the target of an input of shape <<b, c>> \o sp: any channel count over the
\* same voxels, or class indices or c channels over other voxels
TargetShapes(b, c, sp) ==
    {<<b, ct>> \o sp : ct \in 1..MaxC}
      \cup {<<b, ct>> \o spt : ct \in {1, c}, spt \in TargetSpatials(sp)}

Seeds == {0, 1}

\* logits 1, -1, 0 in turn
Logits(shape, seed) ==
    [shape |-> shape, data |-> [k \in 1..Numel(shape) |-> R(((seed + k + 1) % 3) - 1)]]

\* labels 1, 0 in turn
Labels(shape, seed) ==
    [shape |-> shape, data |-> [k \in 1..Numel(shape) |-> R((seed + k) % 2)]]

ArgsOfShape(b, c, sp) ==
    {[input |-> Logits(<<b, c>> \o sp, 0), target |-> Labels(ts, 0)] :
        ts \in TargetShapes(b, c, sp)}

Args == UNION {ArgsOfShape(b, c, sp) : b \in 1..MaxB, c \in 1..MaxC, sp \in Spatials}

Gammas == {0, 2}

\* no weight, a scalar, or a sequence of each length: 0, 1, 2, ... and the same
\* with its last value negative
Weights ==
    {NoWeight} \cup {ScalarWeight(w) : w \in {-1, 2}}
      \cup {SequenceWeight([k \in 1..n |-> k - 1]) : n \in 1..MaxC}
      \cup {SequenceWeight([k \in 1..n |-> IF k = n THEN -1 ELSE k - 1]) : n \in 1..MaxC}

CtorArgs ==
    [include_background : BOOLEAN, to_onehot_y : BOOLEAN, gamma : Gammas,
     weight : Weights, reduction : LossReduction \cup {"bogus"}]

\* the arguments of the interleaved calls
ConcCtorArgs ==
    [include_background : BOOLEAN, to_onehot_y : {TRUE}, gamma : {2},
     weight : {NoWeight, ScalarWeight(2)}, reduction : {"mean", "none"}]

ConcArgs ==
    UNION {{[input |-> Logits(<<1, c, 2>>, seed), target |-> Labels(<<1, ct, 2>>, seed)] :
               ct \in {1, c}, seed \in Seeds} : c \in {1, MaxC}}

(***************************************************************************)
(* Actions.                                                                *)
(***************************************************************************)
Init ==
    /\ self = NoInstance
    /\ ctorRaised = FALSE
    /\ calls = [th \in Threads |-> IdleFrame]

\* FocalLoss(include_background, to_onehot_y, gamma, weight, reduction)
FocalLossInit(a) ==
    /\ ~self.constructed
    /\ ~ctorRaised
    /\ IF a.reduction \in LossReduction
       THEN /\ self' = [constructed |-> TRUE, include_background |-> a.include_background,
                        to_onehot_y |-> a.to_onehot_y, gamma |-> a.gamma,
                        weight |-> a.weight, reduction |-> a.reduction]
            /\ UNCHANGED ctorRaised
       ELSE /\ ctorRaised' = TRUE
            /\ UNCHANGED self
    /\ UNCHANGED calls

\* the caller assigns loss.reduction between calls
SetReduction(r) ==
    /\ self.constructed
    /\ \A th \in Threads : calls[th].pc = "idle"
    /\ r # self.reduction
    /\ self' = [self EXCEPT !.reduction = r]
    /\ UNCHANGED <<ctorRaised, calls>>

\* loss(input, target): the arguments are bound
Call(th, a) ==
    /\ self.constructed
    /\ calls[th].pc = "idle"
    /\ calls' = [calls EXCEPT ![th] = Enter(a.input, a.target)]
    /\ UNCHANGED <<self, ctorRaised>>

\* the whole body of forward
Forward(th) ==
    /\ calls[th].pc = "onehot"
    /\ calls' = [calls EXCEPT ![th] = Run(self, @)]
    /\ UNCHANGED <<self, ctorRaised>>

\* the caller takes the result or the error; the frame is dropped
Discard(th) ==
    /\ calls[th].pc = "done"
    /\ calls' = [calls EXCEPT ![th] = IdleFrame]
    /\ UNCHANGED <<self, ctorRaised>>

\* one block of forward at a time
Step(th, pc) ==
    /\ calls[th].pc = pc
    /\ calls' = [calls EXCEPT ![th] = Block(self, @)]
    /\ UNCHANGED <<self, ctorRaised>>

StepOneHot(th) == Step(th, "onehot")

StepBackground(th) == Step(th, "background")

StepShape(th) == Step(th, "shape")

StepCE(th) == Step(th, "ce")

\* mutant: the class weights are kept on the instance
StepWeightCaching(th) ==
    /\ calls[th].pc = "weight"
    /\ calls' = [calls EXCEPT ![th] = Block(self, @)]
    /\ self' = IF self.weight.kind = "none" THEN self
               ELSE [self EXCEPT !.weight = SequenceWeight(ClassWeight(self, calls[th]))]
    /\ UNCHANGED ctorRaised

StepWeight(th) == Step(th, "weight")

StepFocal(th) == Step(th, "focal")

StepReduce(th) == Step(th, "reduce")

Next ==
    \/ \E a \in CtorArgs : FocalLossInit(a)
    \/ \E r \in LossReduction \cup {"bogus"} : SetReduction(r)
    \/ \E a \in Args : Call(1, a)
    \/ Forward(1)
    \/ Discard(1)

Spec == Init /\ [][Next]_vars

NextConc ==
    \/ \E a \in ConcCtorArgs : FocalLossInit(a)
    \/ \E th \in Threads :
         \/ \E a \in ConcArgs : Call(th, a)
         \/ StepOneHot(th)
         \/ StepBackground(th)
         \/ StepShape(th)
         \/ StepCE(th)
         \/ StepWeight(th)
         \/ StepFocal(th)
         \/ StepReduce(th)
         \/ Discard(th)

SpecConc == Init /\ [][NextConc]_vars

(***************************************************************************)
(* Properties.                                                             *)
(***************************************************************************)
Done(th) == calls[th].pc = "done"

Succeeded(th) == Done(th) /\ calls[th].out.kind = "value"

Failed(th, msg) == Done(th) /\ calls[th].out.msg = msg

\* channels of the prediction as passed
PredCh(th) == calls[th].argInput.shape[2]

\* whether one-hot expansion, and whether background removal, applies to the call
Expands(th) == self.to_onehot_y /\ PredCh(th) > 1

DropsBackground(th) == ~self.include_background /\ PredCh(th) > 1

\* N of the claims: the channels scored
ScoredChannels(th) == IF DropsBackground(th) THEN PredCh(th) - 1 ELSE PredCh(th)

\* the shapes after preprocessing, from the shapes passed
PreInputShape(th) == [calls[th].argInput.shape EXCEPT ![2] = ScoredChannels(th)]

PreTargetShape(th) ==
    LET hot == IF Expands(th) THEN [calls[th].argTarget.shape EXCEPT ![2] = PredCh(th)]
               ELSE calls[th].argTarget.shape
    IN  IF DropsBackground(th) THEN [hot EXCEPT ![2] = @ - 1] ELSE hot

\* the one-hot primitive takes the target (class indices in one channel)
Preprocessed(th) == Expands(th) => calls[th].argTarget.shape[2] = 1

\* the call passes the shape check
ShapesAgree(th) == Preprocessed(th) /\ PreTargetShape(th) = PreInputShape(th)

\* what forward returns or raises on the arguments of frame f, configured as s
OutcomeOf(s, f) == Run(s, Enter(f.argInput, f.argTarget)).out

\* what the same call returns or raises on the instance configured as s
Outcome(s, th) == OutcomeOf(s, calls[th])

\* C1: shapes are compared after one-hot expansion and background removal: whenever
\* the preprocessing completes, a target whose preprocessed shape differs from the
\* preprocessed input's fails with the shape-mismatch ValueError, which carries
\* both shapes and no loss, and equal shapes raise no shape-mismatch error.
C1_ShapeCheckAfterPreprocessing ==
    \A th \in Threads :
        Done(th) /\ Preprocessed(th) =>
            IF PreTargetShape(th) # PreInputShape(th)
            THEN calls[th].out = [kind |-> "ValueError", msg |-> "shape",
                                  shapes |-> <<PreTargetShape(th), PreInputShape(th)>>,
                                  value |-> NoTensor]
            ELSE calls[th].out.msg # "shape"

\* a call that expanded the target and dropped the background, and failed the
\* shape check
C1_Witness ==
    /\ Failed(1, "shape") /\ Expands(1) /\ DropsBackground(1)
    /\ calls[1].input.shape # calls[1].argInput.shape
    /\ calls[1].out.shapes[1] # calls[1].out.shapes[2]

\* a call that passes the check only because of the preprocessing
C1_WitnessPass ==
    /\ Succeeded(1) /\ Expands(1) /\ DropsBackground(1)
    /\ calls[1].argTarget.shape # calls[1].argInput.shape

\* C2 as stated, of the calls whose preprocessing completes: a sequence weight of
\* length other than N always fails with the weight-length error, and a scalar
\* weight never does.
C2_Original ==
    \A th \in Threads :
        Done(th) /\ Preprocessed(th) =>
            /\ self.weight.kind = "sequence" /\ Len(self.weight.vals) # ScoredChannels(th)
                 => calls[th].out.msg = "weight_length"
            /\ self.weight.kind = "scalar" => calls[th].out.msg # "weight_length"

\* C2, amended: a call that passes the shape check with a sequence weight of length
\* other than N fails with the weight-length ValueError and returns no loss; a
\* scalar weight never raises the weight-length error.
C2_WeightLength ==
    \A th \in Threads :
        Done(th) =>
            /\ ShapesAgree(th) /\ self.weight.kind = "sequence"
                 /\ Len(self.weight.vals) # ScoredChannels(th)
                 => calls[th].out = [kind |-> "ValueError", msg |-> "weight_length",
                                     shapes |-> <<>>, value |-> NoTensor]
            /\ self.weight.kind = "scalar" => calls[th].out.msg # "weight_length"

\* a weight as long as the prediction has channels, one too many once the
\* background is dropped
C2_Witness ==
    /\ Failed(1, "weight_length") /\ DropsBackground(1)
    /\ Len(self.weight.vals) = PredCh(1)

\* a value of the weight is negative
HasNegative == \E k \in 1..Len(self.weight.vals) : self.weight.vals[k] < 0

\* the weight is a scalar or a sequence with one value per scored channel
WeightFits(th) ==
    \/ self.weight.kind = "scalar"
    \/ self.weight.kind = "sequence" /\ Len(self.weight.vals) = ScoredChannels(th)

\* C3 as stated, of the calls whose preprocessing completes: a weight with any
\* negative value always fails with the weight-range error, and a weight with none
\* never does.
C3_Original ==
    \A th \in Threads :
        Done(th) /\ Preprocessed(th) /\ self.weight.kind # "none" =>
            IF HasNegative THEN calls[th].out.msg = "weight_range"
            ELSE calls[th].out.msg # "weight_range"

\* C3, amended: a call that passes the shape check, with a scalar weight or a
\* sequence weight of length N, fails with the weight-range ValueError whenever any
\* value is negative, whatever the other values; a weight whose values are all
\* >= 0 (0 included) never raises the weight-range error.
C3_WeightRange ==
    \A th \in Threads :
        Done(th) /\ self.weight.kind # "none" =>
            IF HasNegative
            THEN ShapesAgree(th) /\ WeightFits(th)
                   => calls[th].out = [kind |-> "ValueError", msg |-> "weight_range",
                                       shapes |-> <<>>, value |-> NoTensor]
            ELSE calls[th].out.msg # "weight_range"

\* a sequence of several weights, the first valid and another negative
C3_Witness ==
    /\ Failed(1, "weight_range") /\ self.weight.kind = "sequence"
    /\ Len(self.weight.vals) > 1 /\ self.weight.vals[1] >= 0

\* the elements of a tensor summed by hand, last to first
RECURSIVE ManualSum(_)
ManualSum(d) ==
    IF d = <<>> THEN R(0) ELSE RAdd(ManualSum(SubSeq(d, 1, Len(d) - 1)), d[Len(d)])

\* the loss of one voxel, from the flattened tensors of the frame
VoxelLoss(f, k) ==
    RMul(Exp(RMul(LogPt(f.i.data[k], f.t.data[k]), R(self.gamma))), f.ce.data[k])

\* C4: the sum result is the sum of the elements of the none result, the mean
\* result is that sum divided by B*N, and each element of the none result is the
\* average of the losses of its voxels.
C4_ReductionsAgree ==
    \A th \in Threads :
        Succeeded(th) =>
            LET none == Outcome([self EXCEPT !.reduction = "none"], th).value
                b == calls[th].argInput.shape[1]
                n == ScoredChannels(th)
                v == calls[th].i.shape[3]
                got == calls[th].out.value
            IN  /\ Len(none.data) = b * n
                /\ \A k \in 1..(b * n) :
                      RMul(none.data[k], R(v)) =
                          ManualSum([j \in 1..v |-> VoxelLoss(calls[th], (k - 1) * v + j)])
                /\ self.reduction = "none" => got = none
                /\ self.reduction = "sum" => got.data = <<ManualSum(none.data)>>
                /\ self.reduction = "mean"
                     => got.data = <<RDivInt(ManualSum(none.data), b * n)>>

\* a mean over several batch entries, channels and voxels
C4_Witness ==
    /\ Succeeded(1) /\ self.reduction = "mean"
    /\ calls[1].i.shape[1] > 1 /\ calls[1].i.shape[2] > 1 /\ calls[1].i.shape[3] > 1
    /\ self.weight.kind # "none" /\ self.gamma > 0

\* C5: a successful call returns a [B, N] tensor under none, N = C - 1 when the
\* background is dropped and C otherwise, and a scalar under mean and sum,
\* whatever the number of spatial axes.
C5_OutputShape ==
    \A th \in Threads :
        Succeeded(th) =>
            IF self.reduction = "none"
            THEN calls[th].out.value.shape =
                     <<calls[th].argInput.shape[1],
                       IF ~self.include_background /\ PredCh(th) > 1
                       THEN PredCh(th) - 1 ELSE PredCh(th)>>
            ELSE calls[th].out.value.shape = <<>>

\* an unreduced result over two spatial axes with the background dropped
C5_Witness ==
    /\ Succeeded(1) /\ self.reduction = "none" /\ DropsBackground(1)
    /\ Len(calls[1].argInput.shape) = 4

\* C6: from the binding of the arguments to the return or the raise, the caller's
\* prediction and target tensors keep their shape and their elements.
C6_ArgumentsUnchanged ==
    [][\A th \in Threads :
          calls[th].pc # "idle" /\ calls'[th].pc # "idle" =>
              /\ calls'[th].argInput = calls[th].argInput
              /\ calls'[th].argTarget = calls[th].argTarget]_vars

\* a returned call that scored the caller's target as passed, and sliced its input
C6_Witness ==
    /\ Succeeded(1) /\ DropsBackground(1) /\ ~Expands(1)
    /\ calls[1].input # calls[1].argInput

\* the warnings of a single-channel call
SingleChannelWarnings ==
    (IF self.to_onehot_y
     THEN <<"single channel prediction, to_onehot_y=True ignored.">> ELSE <<>>)
      \o (IF ~self.include_background
          THEN <<"single channel prediction, include_background=False ignored.">>
          ELSE <<>>)

\* C7: on a single-channel prediction to_onehot_y=True and include_background=False
\* each warn and change nothing: the tensors scored are those passed, and the call
\* returns or raises what it does with to_onehot_y=False, include_background=True.
C7_SingleChannelFlagsIgnored ==
    \A th \in Threads :
        Done(th) /\ PredCh(th) = 1 =>
            /\ calls[th].warnings = SingleChannelWarnings
            /\ calls[th].input = calls[th].argInput
            /\ calls[th].target = calls[th].argTarget
            /\ calls[th].out.kind # "AssertionError"
            /\ calls[th].out =
                 Outcome([self EXCEPT !.to_onehot_y = FALSE, !.include_background = TRUE], th)

\* both flags set on a single-channel prediction, and a loss returned
C7_Witness ==
    /\ Succeeded(1) /\ PredCh(1) = 1 /\ self.to_onehot_y /\ ~self.include_background
    /\ Len(calls[1].warnings) = 2

C8_WitnessCtor == ctorRaised /\ ~self.constructed

\* every element doubled
Doubled(x) == [shape |-> x.shape, data |-> [k \in 1..Len(x.data) |-> RAdd(x.data[k], x.data[k])]]

\* C9: with gamma = 0 and the scalar weight 2, the result is twice, element by
\* element, the result of the same call with no weight, under each reduction, and
\* the call fails exactly as the call with no weight does.
C9_ScalarWeightDoubles ==
    \A th \in Threads :
        Done(th) /\ self.gamma = 0 /\ self.weight = ScalarWeight(2) =>
            LET plain == Outcome([self EXCEPT !.weight = NoWeight], th)
            IN  IF plain.kind = "value"
                THEN /\ calls[th].out.kind = "value"
                     /\ calls[th].out.value = Doubled(plain.value)
                ELSE calls[th].out = plain

\* an unreduced loss of several elements under gamma = 0 and weight 2
C9_Witness ==
    /\ Succeeded(1) /\ self.gamma = 0 /\ self.weight = ScalarWeight(2)
    /\ self.reduction = "none" /\ Len(calls[1].out.value.data) > 1

\* two finished calls on the same arguments have the same outcome
SameOutcome ==
    \A t1, t2 \in Threads :
        /\ Done(t1) /\ Done(t2)
        /\ calls[t1].argInput = calls[t2].argInput
        /\ calls[t1].argTarget = calls[t2].argTarget
        => /\ calls[t1].out = calls[t2].out
           /\ calls[t1].warnings = calls[t2].warnings

\* C10: no step of any call, however the calls interleave, changes the configuration
\* of the instance; a finished call has the outcome its own arguments and the
\* configuration determine, and calls on the same arguments have the same outcome,
\* whatever ran before or beside them.
C10_Reentrant ==
    [][/\ self.constructed => self' = self
       /\ SameOutcome'
       /\ \A th \in Threads :
             calls'[th].pc = "done" => calls'[th].out = OutcomeOf(self', calls'[th])]_vars

\* two calls on the same arguments, both returned, on an instance with a weight
C10_Witness ==
    /\ Succeeded(1) /\ Succeeded(2)
    /\ calls[1].argInput = calls[2].argInput /\ calls[1].argTarget = calls[2].argTarget
    /\ self.weight.kind = "scalar"

====
